---------------------------- MODULE Spec2Model ----------------------------
(***************************************************************************)
(* A model of be/src/util/cpu-info.cc (CpuInfo): the process-wide CPU      *)
(* facts, their discovery in Init()/InitNuma(), the derived NUMA maps, and *)
(* the test-only mutators EnableFeature() and InitFakeNumaForTest().       *)
(*                                                                         *)
(* Strings are sequences of one-character strings, so that find, substr,   *)
(* trim, contains and atof are computed as the code computes them.         *)
(* Vectors and arrays are sequences; element i of the code is element i+1  *)
(* here (see At).  A capability mask is the set of its single-bit flags.   *)
(***************************************************************************)
EXTENDS Integers, Sequences, FiniteSets, TLC

(***************************************************************************)
(* Bounds of the model.                                                    *)
(***************************************************************************)
\* get_nprocs_conf() reports between 1 and MaxCores cores.
MaxCores == 3
\* InitFakeNumaForTest is called with 1..MaxNodes nodes.
MaxNodes == 2
\* Init() is called at most MaxInitCalls times in one run.
MaxInitCalls == 2
\* sched_getcpu() reports a value in -1..MaxCpuId.
MaxCpuId == 7

(***************************************************************************)
(* Strings.                                                                *)
(***************************************************************************)
\* string::npos
NPOS == -1

\* line.find(ch): the 0-based position of the first ch, or npos.
Find(s, ch) ==
  IF \E i \in 1..Len(s) : s[i] = ch
  THEN (CHOOSE i \in 1..Len(s) : s[i] = ch /\ \A j \in 1..(i-1) : s[j] # ch) - 1
  ELSE NPOS

\* s.substr(pos, count) for pos <= size; count npos takes the rest.
Substr(s, pos, count) ==
  IF count = NPOS \/ pos + count > Len(s)
  THEN SubSeq(s, pos + 1, Len(s))
  ELSE SubSeq(s, pos + 1, pos + count)

\* std::isspace for the characters the inputs use.
IsSpace(ch) == ch \in {" ", "\t"}

\* boost::algorithm::trim: leading and trailing white space removed.
RECURSIVE TrimLeft(_)
TrimLeft(s) ==
  IF s # <<>> /\ IsSpace(Head(s)) THEN TrimLeft(Tail(s)) ELSE s

RECURSIVE TrimRight(_)
TrimRight(s) ==
  IF s # <<>> /\ IsSpace(s[Len(s)]) THEN TrimRight(SubSeq(s, 1, Len(s) - 1)) ELSE s

trim(s) == TrimRight(TrimLeft(s))

\* boost::algorithm::contains(input, test): test occurs in input as a substring.
contains(input, test) ==
  \E i \in 0..(Len(input) - Len(test)) : SubSeq(input, i + 1, i + Len(test)) = test

\* A decimal digit's value, -1 for any other character.
DigitVal(ch) ==
  CASE ch = "0" -> 0 [] ch = "1" -> 1 [] ch = "2" -> 2 [] ch = "3" -> 3
    [] ch = "4" -> 4 [] ch = "5" -> 5 [] ch = "6" -> 6 [] ch = "7" -> 7
    [] ch = "8" -> 8 [] ch = "9" -> 9 [] OTHER -> -1

\* The length of the longest prefix of s made of digits.
RECURSIVE DigitRun(_)
DigitRun(s) ==
  IF s # <<>> /\ DigitVal(Head(s)) >= 0 THEN 1 + DigitRun(Tail(s)) ELSE 0

\* The number a digit string denotes (0 for the empty string).
RECURSIVE DigitsValue(_)
DigitsValue(s) ==
  IF s = <<>> THEN 0
  ELSE 10 * DigitsValue(SubSeq(s, 1, Len(s) - 1)) + DigitVal(s[Len(s)])

\* The first three decimals of a digit string, as thousandths.
Thousandths(s) ==
  LET d(i) == IF i <= Len(s) THEN DigitVal(s[i]) ELSE 0
  IN  100 * d(1) + 10 * d(2) + d(3)

\* atof(value) in thousandths: digits, then optionally a point and digits; a
\* string that starts with no number gives 0.  The parsed inputs are exactly
\* representable as float, so max_mhz * 1000 is the value computed here.
atof(s) ==
  LET n    == DigitRun(s)
      rest == SubSeq(s, n + 1, Len(s))
      frac == IF rest # <<>> /\ Head(rest) = "."
              THEN SubSeq(rest, 2, 1 + DigitRun(Tail(rest)))
              ELSE <<>>
  IN  1000 * DigitsValue(SubSeq(s, 1, n)) + Thousandths(frac)

\* v[i] of a vector or array of the code.
At(v, i) == v[i + 1]

(***************************************************************************)
(* The capability flags and the table of their names.                      *)
(***************************************************************************)
SSSE3 == "SSSE3"
SSE4_1 == "SSE4_1"
SSE4_2 == "SSE4_2"
POPCNT == "POPCNT"
AVX == "AVX"
AVX2 == "AVX2"
PCLMULQDQ == "PCLMULQDQ"

name_ssse3 == <<"s","s","s","e","3">>
name_sse4_1 == <<"s","s","e","4","_","1">>
name_sse4_2 == <<"s","s","e","4","_","2">>
name_popcnt == <<"p","o","p","c","n","t">>
name_avx == <<"a","v","x">>
name_avx2 == <<"a","v","x","2">>
name_pclmulqdq == <<"p","c","l","m","u","l","q","d","q">>

flag_mappings ==
  << [name |-> name_ssse3,     flag |-> SSSE3],
     [name |-> name_sse4_1,    flag |-> SSE4_1],
     [name |-> name_sse4_2,    flag |-> SSE4_2],
     [name |-> name_popcnt,    flag |-> POPCNT],
     [name |-> name_avx,       flag |-> AVX],
     [name |-> name_avx2,      flag |-> AVX2],
     [name |-> name_pclmulqdq, flag |-> PCLMULQDQ] >>

num_flags == Len(flag_mappings)

AllFlags == {flag_mappings[i].flag : i \in 1..num_flags}

\* The mask of the flags whose name occurs in values.
ParseCPUFlags(values) ==
  {flag_mappings[i].flag : i \in {j \in 1..num_flags :
     contains(values, flag_mappings[j].name)}}

(***************************************************************************)
(* The scan of /proc/cpuinfo in Init().                                    *)
(***************************************************************************)
key_flags == <<"f","l","a","g","s">>
key_cpu_MHz == <<"c","p","u"," ","M","H","z">>
key_processor == <<"p","r","o","c","e","s","s","o","r">>
key_model_name == <<"m","o","d","e","l"," ","n","a","m","e">>
str_unknown == <<"u","n","k","n","o","w","n">>

\* The name of a record: line.substr(0, colon - 1), trimmed.  colon - 1 is a
\* size_t: it is npos when the colon is the first character.
RecordName(line) ==
  LET colon == Find(line, ":")
  IN  trim(Substr(line, 0, IF colon = 0 THEN NPOS ELSE colon - 1))

\* The value of a record: line.substr(colon + 1, npos), trimmed.
RecordValue(line) ==
  trim(Substr(line, Find(line, ":") + 1, NPOS))

Max(a, b) == IF a < b THEN b ELSE a

\* One pass of the loop body over `line`; st holds hardware_flags_, max_mhz,
\* num_cores and model_name_.
ScanLine(st, line) ==
  IF Find(line, ":") = NPOS THEN st
  ELSE LET name  == RecordName(line)
           value == RecordValue(line)
       IN  IF name = key_flags
             THEN [st EXCEPT !.flags = st.flags \cup ParseCPUFlags(value)]
           ELSE IF name = key_cpu_MHz
             THEN [st EXCEPT !.max_mhz = Max(atof(value), st.max_mhz)]
           ELSE IF name = key_processor
             THEN [st EXCEPT !.num_cores = st.num_cores + 1]
           ELSE IF name = key_model_name
             THEN [st EXCEPT !.model_name = value]
           ELSE st

RECURSIVE ScanLines(_, _)
ScanLines(st, lines) ==
  IF lines = <<>> THEN st ELSE ScanLines(ScanLine(st, Head(lines)), Tail(lines))

\* The lines the loop `while (cpuinfo) { getline(cpuinfo, line); ... }` hands to
\* its body.  A file that cannot be opened gives none.  After the last line of
\* a file that ends with a newline the failing getline leaves an empty line; a
\* last line without a newline sets eofbit only, so the loop runs once more and
\* the failing getline leaves `line` as it was: that line is scanned twice.
LinesRead(file) ==
  IF ~file.open THEN <<>>
  ELSE IF file.lines = <<>> \/ file.final_newline THEN Append(file.lines, <<>>)
  ELSE Append(file.lines, file.lines[Len(file.lines)])

\* The scan of Init(), from the current hardware_flags_ and model_name_.
ScanCpuinfo(file, flags0, model0) ==
  ScanLines([flags |-> flags0, max_mhz |-> 0, num_cores |-> 0, model_name |-> model0],
            LinesRead(file))

(***************************************************************************)
(* The inputs: descriptor tables and /sys layouts.                         *)
(***************************************************************************)
L_flags3 == <<"f","l","a","g","s"," ",":"," ","s","s","s","e","3"," ","s","s","e","4","_","1"," ","a","v","x","2">>
L_proc0 == <<"p","r","o","c","e","s","s","o","r"," ",":"," ","0">>
L_proc1 == <<"p","r","o","c","e","s","s","o","r"," ",":"," ","1">>
L_flags_avx2 == <<"f","l","a","g","s","\t","\t",":"," ","f","p","u"," ","a","v","x","2">>
L_flags_all == <<"f","l","a","g","s"," ",":"," ","s","s","s","e","3"," ","s","s","e","4","_","1"," ","s","s","e","4","_","2"," ","p","o","p","c","n","t"," ","a","v","x"," ","a","v","x","2"," ","p","c","l","m","u","l","q","d","q">>
L_flags_none == <<"f","l","a","g","s"," ",":"," ","f","p","u"," ","s","s","e","2">>
L_flags_glued == <<"f","l","a","g","s",":"," ","a","v","x","2">>
L_model == <<"m","o","d","e","l"," ","n","a","m","e"," ",":"," ","X","e","o","n">>
L_mhz_hi == <<"c","p","u"," ","M","H","z"," ",":"," ","2","4","0","0",".","5">>
L_mhz_lo == <<"c","p","u"," ","M","H","z"," ",":"," ","1","8","0","0">>
L_garbage == <<"g","a","r","b","a","g","e">>
L_bogomips == <<"b","o","g","o","m","i","p","s"," ",":"," ","4","8","0","0">>
L_colon_first == <<":"," ","a","v","x","2">>

File(lines, nl) == [open |-> TRUE, lines |-> lines, final_newline |-> nl]

\* /proc/cpuinfo cannot be opened.
TableAbsent == [open |-> FALSE, lines |-> <<>>, final_newline |-> FALSE]
\* An empty file.
TableEmpty == File(<<>>, FALSE)
\* No record the scan recognises: no colon, an unknown key, a key glued to
\* its colon (the name loses its last character), a colon in column 0.
TableGarbage == File(<<L_garbage, L_bogomips, L_flags_glued, L_colon_first>>, TRUE)
\* flags : ssse3 sse4_1 avx2 and two processors.
TableThree == File(<<L_flags3, L_proc0, L_proc1>>, TRUE)
\* The same records, the last line not ended by a newline.
TableThreeCut == File(<<L_flags3, L_proc0, L_proc1>>, FALSE)
\* One processor whose only capability in the table of names is avx2.
TableAvx2 == File(<<L_proc0, L_model, L_mhz_lo, L_flags_avx2>>, TRUE)
\* Two processors with every capability, a model name and two clock speeds.
TableFull ==
  File(<<L_proc0, L_model, L_mhz_lo, L_flags_all, L_proc1, L_model, L_mhz_hi, L_flags_all>>, TRUE)
\* A flags record that names no capability of the table.
TableNoCaps == File(<<L_proc0, L_flags_none>>, TRUE)

Tables ==
  {TableAbsent, TableEmpty, TableGarbage, TableThree, TableThreeCut, TableAvx2,
   TableFull, TableNoCaps}

str_node == <<"n","o","d","e">>
F_node0 == <<"n","o","d","e","0">>
F_node1 == <<"n","o","d","e","1">>
F_node2 == <<"n","o","d","e","2">>
F_possible == <<"p","o","s","s","i","b","l","e">>
F_has_cpu == <<"h","a","s","_","c","p","u">>

\* /sys: whether /sys/devices/system/node is a directory, its entries, and the
\* pairs (core, node) for which /sys/devices/system/cpu/cpu<core>/node<node> exists.
Sysfs(dir, entries, links) == [node_dir |-> dir, entries |-> entries, links |-> links]

\* No NUMA support in the kernel.
SysfsAbsent == Sysfs(FALSE, {}, {})
\* The directory holds no node entry.
SysfsNoNodes == Sysfs(TRUE, {F_possible, F_has_cpu}, {})
\* One node that owns every core.
SysfsOneNode == Sysfs(TRUE, {F_node0, F_possible}, {<<c, 0>> : c \in 0..MaxCores})
\* Two nodes, the cores dealt to them in turn.
SysfsTwoNodes ==
  Sysfs(TRUE, {F_node0, F_node1, F_has_cpu}, {<<c, c % 2>> : c \in 0..MaxCores})
\* Two nodes; core 0 is on node 1 and the other cores have no link.
SysfsMissingLinks == Sysfs(TRUE, {F_node0, F_node1}, {<<0, 1>>})
\* Nodes 0 and 2: two entries, so only node0 and node1 links are looked for.
SysfsSparse ==
  Sysfs(TRUE, {F_node0, F_node2}, {<<c, IF c = 0 THEN 0 ELSE 2>> : c \in 0..MaxCores})
\* Three nodes, the upper cores on the upper nodes, core 0 linked to two nodes.
SysfsThreeNodes ==
  Sysfs(TRUE, {F_node0, F_node1, F_node2},
        {<<c, IF c < 2 THEN c ELSE 2>> : c \in 0..MaxCores} \cup {<<0, 1>>})

SysfsLayouts ==
  {SysfsAbsent, SysfsNoNodes, SysfsOneNode, SysfsTwoNodes, SysfsMissingLinks,
   SysfsSparse, SysfsThreeNodes}

(***************************************************************************)
(* The state.                                                              *)
(***************************************************************************)
VARIABLES
  \* the machine and the build
  cpuinfo,              \* /proc/cpuinfo
  FLAGS_num_cores,      \* --num_cores
  nprocs_conf,          \* what get_nprocs_conf() returns
  sysfs,                \* the NUMA entries of /sys
  NDEBUG,               \* a release build: DCHECKs are compiled out
  HAVE_SCHED_GETCPU,    \* built with sched_getcpu()
  \* the static fields of CpuInfo
  initialized_,
  hardware_flags_,
  original_hardware_flags_,
  cycles_per_ms_,
  num_cores_,
  max_num_cores_,
  model_name_,
  max_num_numa_nodes_,
  core_to_numa_node_,
  numa_node_to_cores_,
  numa_node_core_idx_,
  \* the process: "running", "aborted" by a failed DCHECK, or "crashed" by an
  \* access outside an array
  status,
  \* the calls made so far
  last_call,            \* the last call, its arguments and what it returned
  init_calls,           \* how many times Init() was called
  first_init,           \* the published facts when the first Init() returned
  prev_op               \* the operation called before the last call

machine == <<cpuinfo, FLAGS_num_cores, nprocs_conf, sysfs, NDEBUG, HAVE_SCHED_GETCPU>>
features == <<hardware_flags_, original_hardware_flags_>>
scalars == <<cycles_per_ms_, num_cores_, max_num_cores_, model_name_>>
topology ==
  <<max_num_numa_nodes_, core_to_numa_node_, numa_node_to_cores_, numa_node_core_idx_>>
history == <<last_call, init_calls, first_init, prev_op>>
vars == <<machine, initialized_, features, scalars, topology, status, history>>

(***************************************************************************)
(* DCHECK and the published facts.                                         *)
(***************************************************************************)
\* DCHECK(cond) ends the process when cond is false, in a build that has
\* DCHECKs; a release build (NDEBUG) compiles it to nothing.
DCheckFails(cond) == ~NDEBUG /\ ~cond

\* IsSupported(flag) of cpu-info.h: the enabled mask holds the flag.
IsSupported(flag) == flag \in hardware_flags_

\* The facts the accessors publish.
Facts ==
  [enabled     |-> hardware_flags_,
   supported   |-> original_hardware_flags_,
   activeCores |-> num_cores_,
   maxCores    |-> max_num_cores_,
   maxNodes    |-> max_num_numa_nodes_,
   coreToNode  |-> core_to_numa_node_,
   nodeToCores |-> numa_node_to_cores_,
   localIndex  |-> numa_node_core_idx_]

\* The facts before any Init(): the static initialisers.
NoFacts ==
  [enabled |-> {}, supported |-> {}, activeCores |-> 1, maxCores |-> 0, maxNodes |-> 0,
   coreToNode |-> <<>>, nodeToCores |-> <<>>, localIndex |-> <<>>]

\* A call, its arguments and its result, with defaults for what it lacks.
NoCall ==
  [op |-> "none", flag |-> "", enable |-> FALSE, nodes |-> 0, map |-> <<>>,
   cpu |-> 0, ret |-> 0, ok |-> TRUE]

(***************************************************************************)
(* InitNuma and InitNumaNodeToCores.                                       *)
(***************************************************************************)
\* filename.find("node") == 0: the name starts with "node".
StartsWithNode(filename) ==
  Len(filename) >= Len(str_node) /\ SubSeq(filename, 1, Len(str_node)) = str_node

\* max_num_numa_nodes_ as InitNuma sets it.
CountNodes(fs) ==
  IF ~fs.node_dir THEN 1
  ELSE LET n == Cardinality({f \in fs.entries : StartsWithNode(f)})
       IN  IF n = 0 THEN 1 ELSE n

\* The node InitNuma gives a core: the first node below max_nodes the core has
\* a link to, node 0 when it has none (or when there is no NUMA directory).
NodeOfCore(fs, core, max_nodes) ==
  LET found == {node \in 0..(max_nodes - 1) : <<core, node>> \in fs.links}
  IN  IF ~fs.node_dir \/ found = {} THEN 0
      ELSE CHOOSE node \in found : \A other \in found : node <= other

\* core_to_numa_node_ as InitNuma fills it, for max_cores cores.
DiscoverCoreToNode(fs, max_cores) ==
  [i \in 1..max_cores |-> NodeOfCore(fs, i - 1, CountNodes(fs))]

\* vector::resize(n): cut to n elements, or filled up with `fill`.
Resize(v, n, fill) ==
  [i \in 1..n |-> IF i <= Len(v) THEN v[i] ELSE fill]

\* The loop of InitNumaNodeToCores from core `core` on; r holds the two
\* vectors and ok, which is false once a node outside the vector was indexed.
RECURSIVE NodeToCoresLoop(_, _, _, _)
NodeToCoresLoop(r, c2n, core, max_cores) ==
  IF core >= max_cores \/ ~r.ok THEN r
  ELSE LET node == At(c2n, core)
       IN  IF node < 0 \/ node >= Len(r.n2c)
           THEN [r EXCEPT !.ok = FALSE]
           ELSE NodeToCoresLoop(
                  [r EXCEPT !.idx[core + 1] = Len(r.n2c[node + 1]),
                            !.n2c[node + 1] = Append(r.n2c[node + 1], core)],
                  c2n, core + 1, max_cores)

\* A sequence back to front.
Reverse(v) == [i \in 1..Len(v) |-> v[Len(v) + 1 - i]]

\* InitNumaNodeToCores with every core put at the front of its node's list.
InitNumaNodeToCoresPushFront(n2c, idx, c2n, max_nodes, max_cores) ==
  LET r == NodeToCoresLoop([n2c |-> Resize(n2c, max_nodes, <<>>),
                            idx |-> Resize(idx, max_cores, 0),
                            ok  |-> TRUE],
                           c2n, 0, max_cores)
  IN  [r EXCEPT !.n2c = [n \in DOMAIN r.n2c |-> Reverse(r.n2c[n])]]

\* InitNumaNodeToCores with a core's index taken after the core was pushed.
InitNumaNodeToCoresIndexAfterPush(n2c, idx, c2n, max_nodes, max_cores) ==
  LET r == NodeToCoresLoop([n2c |-> Resize(n2c, max_nodes, <<>>),
                            idx |-> Resize(idx, max_cores, 0),
                            ok  |-> TRUE],
                           c2n, 0, max_cores)
  IN  [r EXCEPT !.idx = [i \in DOMAIN r.idx |-> r.idx[i] + 1]]

\* InitNumaNodeToCores with the node lists emptied before they are filled.
InitNumaNodeToCoresClearsFirst(n2c, idx, c2n, max_nodes, max_cores) ==
  NodeToCoresLoop([n2c |-> Resize(<<>>, max_nodes, <<>>),
                   idx |-> Resize(idx, max_cores, 0),
                   ok  |-> TRUE],
                  c2n, 0, max_cores)

\* InitNumaNodeToCores after its DCHECK: both vectors resized, then the loop.
InitNumaNodeToCores(n2c, idx, c2n, max_nodes, max_cores) ==
  NodeToCoresLoop([n2c |-> Resize(n2c, max_nodes, <<>>),
                   idx |-> Resize(idx, max_cores, 0),
                   ok  |-> TRUE],
                  c2n, 0, max_cores)

(***************************************************************************)
(* The operations.  Callers run Init() before any other operation (the     *)
(* accessors and mutators DCHECK(initialized_)), so every operation but    *)
(* Init() is taken only once initialized_ holds, and none is taken after   *)
(* the process has ended.                                                  *)
(***************************************************************************)
\* cycles_per_ms_ from max_mhz (held in thousandths of a MHz).
CyclesPerMs(max_mhz) == IF max_mhz # 0 THEN max_mhz ELSE 1000000

\* ActiveCores without the fallback to one core.
ActiveCoresNoFallback(counted, flag_num_cores) ==
  IF flag_num_cores > 0 THEN flag_num_cores ELSE counted

\* num_cores_ from the processors counted and --num_cores.
ActiveCores(counted, flag_num_cores) ==
  IF flag_num_cores > 0 THEN flag_num_cores
  ELSE IF counted > 0 THEN counted ELSE 1

\* CpuInfo::Init(), InitNuma() included.  The DCHECK of InitNumaNodeToCores
\* ends the process after everything before it was assigned.
Init_ ==
  /\ status = "running"
  /\ init_calls < MaxInitCalls
  /\ LET scan    == ScanCpuinfo(cpuinfo, hardware_flags_, model_name_)
         nodes   == CountNodes(sysfs)
         c2n     == DiscoverCoreToNode(sysfs, nprocs_conf)
         derived == InitNumaNodeToCores(numa_node_to_cores_, numa_node_core_idx_,
                                        c2n, nodes, nprocs_conf)
         cores   == ActiveCores(scan.num_cores, FLAGS_num_cores)
         aborts  == DCheckFails(numa_node_to_cores_ = <<>>)
     IN  /\ hardware_flags_' = scan.flags
         /\ original_hardware_flags_' = scan.flags
         /\ model_name_' = scan.model_name
         /\ cycles_per_ms_' = CyclesPerMs(scan.max_mhz)
         /\ num_cores_' = cores
         /\ max_num_cores_' = nprocs_conf
         /\ max_num_numa_nodes_' = nodes
         /\ core_to_numa_node_' = c2n
         /\ numa_node_to_cores_' = IF aborts THEN numa_node_to_cores_ ELSE derived.n2c
         /\ numa_node_core_idx_' = IF aborts THEN numa_node_core_idx_ ELSE derived.idx
         /\ initialized_' = IF aborts THEN initialized_ ELSE TRUE
         /\ status' = IF aborts THEN "aborted" ELSE "running"
         /\ last_call' = [NoCall EXCEPT !.op = "Init", !.ok = ~aborts]
         /\ init_calls' = init_calls + 1
         /\ prev_op' = last_call.op
         /\ first_init' =
              IF init_calls = 0 /\ ~aborts
              THEN [enabled |-> scan.flags, supported |-> scan.flags,
                    activeCores |-> cores, maxCores |-> nprocs_conf, maxNodes |-> nodes,
                    coreToNode |-> c2n, nodeToCores |-> derived.n2c,
                    localIndex |-> derived.idx]
              ELSE first_init
  /\ UNCHANGED machine

\* The arrays a caller hands to InitFakeNumaForTest that do not have
\* max_num_cores_ entries: one entry short, one entry long.
WrongSizeMaps(k) ==
  { [i \in 1..(max_num_cores_ - 1) |-> 0], [i \in 1..(max_num_cores_ + 1) |-> k - 1] }

\* What reading core_to_numa_node[i] past the end of the vector can give: a
\* node in range, or a value that is no node.
GarbageNodes(k) == (-1)..k

\* CpuInfo::InitFakeNumaForTest(max_num_numa_nodes, core_to_numa_node).
\* `garbage` is what the reads past the end of a short vector return.
InitFakeNumaForTest(k, m, garbage) ==
  /\ status = "running"
  /\ initialized_
  /\ LET aborts  == DCheckFails(max_num_cores_ = Len(m))
         c2n     == [i \in 1..max_num_cores_ |-> IF i <= Len(m) THEN m[i] ELSE garbage]
         derived == InitNumaNodeToCores(<<>>, numa_node_core_idx_, c2n, k, max_num_cores_)
     IN  IF aborts
         THEN /\ status' = "aborted"
              /\ UNCHANGED topology
         ELSE /\ status' = IF derived.ok THEN "running" ELSE "crashed"
              /\ max_num_numa_nodes_' = k
              /\ core_to_numa_node_' = c2n
              /\ numa_node_to_cores_' = derived.n2c
              /\ numa_node_core_idx_' = derived.idx
  /\ last_call' = [NoCall EXCEPT !.op = "InitFakeNumaForTest", !.nodes = k, !.map = m,
                                 !.ok = (status' = "running")]
  /\ prev_op' = last_call.op
  /\ UNCHANGED <<machine, initialized_, features, scalars, init_calls, first_init>>

\* EnableFeature with `hardware_flags_ &= flag` for the disabling branch.
FlagsAfterEnableFeatureKeepsOnlyFlag(flag, enable) ==
  IF ~enable THEN hardware_flags_ \cap {flag} ELSE hardware_flags_ \cup {flag}

\* hardware_flags_ after the two branches of EnableFeature.
FlagsAfterEnableFeature(flag, enable) ==
  IF ~enable THEN hardware_flags_ \ {flag} ELSE hardware_flags_ \cup {flag}

\* CpuInfo::EnableFeature(flag, enable).
EnableFeature(flag, enable) ==
  /\ status = "running"
  /\ initialized_
  /\ LET aborts == enable /\ DCheckFails(flag \in original_hardware_flags_)
     IN  /\ status' = IF aborts THEN "aborted" ELSE "running"
         /\ hardware_flags_' =
              IF aborts THEN hardware_flags_ ELSE FlagsAfterEnableFeature(flag, enable)
         /\ last_call' = [NoCall EXCEPT !.op = "EnableFeature", !.flag = flag,
                                        !.enable = enable, !.ok = ~aborts]
  /\ prev_op' = last_call.op
  /\ UNCHANGED <<machine, initialized_, original_hardware_flags_, scalars, topology,
                 init_calls, first_init>>

\* EnforceCpuRequirements reading the mask the hardware reported.
EnforceCpuRequirementsOkFromOriginal == AVX2 \in original_hardware_flags_

\* The Status CpuInfo::EnforceCpuRequirements() returns on x86_64: OK or an error.
EnforceCpuRequirementsOk == IsSupported(AVX2)

\* CpuInfo::EnforceCpuRequirements().
EnforceCpuRequirements ==
  /\ status = "running"
  /\ initialized_
  /\ last_call' = [NoCall EXCEPT !.op = "EnforceCpuRequirements",
                                 !.ok = EnforceCpuRequirementsOk]
  /\ prev_op' = last_call.op
  /\ UNCHANGED <<machine, initialized_, features, scalars, topology, status,
                 init_calls, first_init>>

\* GetCurrentCore without the fold of an out-of-range identifier.
CurrentCoreNoFold(cpu) ==
  IF ~HAVE_SCHED_GETCPU THEN 0
  ELSE IF cpu < 0 THEN 0
  ELSE cpu

\* What CpuInfo::GetCurrentCore() returns when sched_getcpu() returns cpu.
CurrentCore(cpu) ==
  IF ~HAVE_SCHED_GETCPU THEN 0
  ELSE IF cpu < 0 THEN 0
  ELSE IF cpu >= max_num_cores_ THEN cpu % max_num_cores_
  ELSE cpu

\* CpuInfo::GetCurrentCore().
GetCurrentCore(cpu) ==
  /\ status = "running"
  /\ initialized_
  /\ last_call' = [NoCall EXCEPT !.op = "GetCurrentCore", !.cpu = cpu,
                                 !.ret = CurrentCore(cpu)]
  /\ prev_op' = last_call.op
  /\ UNCHANGED <<machine, initialized_, features, scalars, topology, status,
                 init_calls, first_init>>

(***************************************************************************)
(* The specifications.                                                     *)
(***************************************************************************)
\* The static initialisers of the fields (zero where the code gives none).
StaticInit ==
  /\ initialized_ = FALSE
  /\ hardware_flags_ = {}
  /\ original_hardware_flags_ = {}
  /\ cycles_per_ms_ = 0
  /\ num_cores_ = 1
  /\ max_num_cores_ = 0
  /\ model_name_ = str_unknown
  /\ max_num_numa_nodes_ = 0
  /\ core_to_numa_node_ = <<>>
  /\ numa_node_to_cores_ = <<>>
  /\ numa_node_core_idx_ = <<>>
  /\ status = "running"
  /\ last_call = NoCall
  /\ init_calls = 0
  /\ first_init = NoFacts
  /\ prev_op = "none"

\* The flags the callers of EnableFeature toggle.
ToggledFlags == {SSSE3, SSE4_2, AVX, AVX2}

\* The capability operations, on every descriptor table.
Init ==
  /\ StaticInit
  /\ cpuinfo \in Tables
  /\ FLAGS_num_cores \in {0, 4}
  /\ nprocs_conf = 2
  /\ sysfs = SysfsTwoNodes
  /\ NDEBUG \in BOOLEAN
  /\ HAVE_SCHED_GETCPU = TRUE

Next ==
  \/ Init_
  \/ \E flag \in ToggledFlags, enable \in BOOLEAN : EnableFeature(flag, enable)
  \/ EnforceCpuRequirements

Spec == Init /\ [][Next]_vars

\* The NUMA operations, on every /sys layout and core count.
InitNumaSpec ==
  /\ StaticInit
  /\ cpuinfo \in {TableEmpty, TableThree}
  /\ FLAGS_num_cores = 0
  /\ nprocs_conf \in 1..MaxCores
  /\ sysfs \in SysfsLayouts
  /\ NDEBUG \in BOOLEAN
  /\ HAVE_SCHED_GETCPU = TRUE

NextNuma ==
  \/ Init_
  \/ \E k \in 1..MaxNodes :
       \E m \in [1..max_num_cores_ -> 0..(k - 1)] \cup WrongSizeMaps(k) :
         \E garbage \in GarbageNodes(k) :
           /\ (Len(m) >= max_num_cores_ => garbage = 0)
           /\ InitFakeNumaForTest(k, m, garbage)

SpecNuma == InitNumaSpec /\ [][NextNuma]_vars

\* GetCurrentCore, for every value sched_getcpu() can report.
InitCoreSpec ==
  /\ StaticInit
  /\ cpuinfo \in {TableAbsent, TableFull}
  /\ FLAGS_num_cores \in {0, 4}
  /\ nprocs_conf \in 1..MaxCores
  /\ sysfs = SysfsAbsent
  /\ NDEBUG \in BOOLEAN
  /\ HAVE_SCHED_GETCPU \in BOOLEAN

NextCore ==
  \/ Init_
  \/ \E cpu \in (-1)..MaxCpuId : GetCurrentCore(cpu)

SpecCore == InitCoreSpec /\ [][NextCore]_vars

(***************************************************************************)
(* The properties.                                                         *)
(***************************************************************************)
\* The state a call has just left, the process still running.
Returned(op) == last_call.op = op /\ status = "running"

\* The cores of node n in ascending order, from a core-to-node array.
RECURSIVE CoresOfNode(_, _, _)
CoresOfNode(c2n, n, core) ==
  IF core >= Len(c2n) THEN <<>>
  ELSE IF At(c2n, core) = n THEN <<core>> \o CoresOfNode(c2n, n, core + 1)
  ELSE CoresOfNode(c2n, n, core + 1)

\* The flags whose table name is a white-space separated token of `values`.
TokenFlags(values) ==
  {flag_mappings[i].flag : i \in {j \in 1..num_flags :
     \E a \in 0..Len(values), b \in 0..Len(values) :
        /\ a < b
        /\ SubSeq(values, a + 1, b) = flag_mappings[j].name
        /\ (a = 0 \/ IsSpace(values[a]))
        /\ (b = Len(values) \/ IsSpace(values[b + 1]))}}

\* The flags named by a token of some `flags` record of the table.
TableTokenFlags(file) ==
  UNION {TokenFlags(RecordValue(file.lines[i])) :
           i \in {j \in 1..Len(file.lines) :
                    /\ Find(file.lines[j], ":") # NPOS
                    /\ RecordName(file.lines[j]) = key_flags}}

\* The table holds no record the scan recognises.
NoRecognisedRecord(file) ==
  \A i \in 1..Len(file.lines) :
     \/ Find(file.lines[i], ":") = NPOS
     \/ RecordName(file.lines[i])
          \notin {key_flags, key_cpu_MHz, key_processor, key_model_name}

\* C1: after Init() and any EnableFeature calls the enabled mask is a subset of
\* the hardware-supported mask, and EnableFeature(flag, true) with a flag the
\* hardware lacks ends the process without setting the bit.
C1_EnabledWithinSupported ==
  /\ initialized_ => hardware_flags_ \subseteq original_hardware_flags_
  /\ (/\ last_call.op = "EnableFeature"
      /\ last_call.enable
      /\ last_call.flag \notin original_hardware_flags_)
     => (status = "aborted" /\ last_call.flag \notin hardware_flags_)

\* C2: the first Init() sets a capability in the hardware-supported mask exactly
\* when its name is a token of some flags record; for `flags : ssse3 sse4_1
\* avx2` and two processors, no --num_cores, activeCores is 2 and IsSupported
\* holds of exactly SSSE3, SSE4_1 and AVX2.
C2_FlagsAreTokens ==
  (Returned("Init") /\ init_calls = 1) =>
     /\ original_hardware_flags_ = TableTokenFlags(cpuinfo)
     /\ (cpuinfo = TableThree /\ FLAGS_num_cores = 0) =>
           /\ num_cores_ = 2
           /\ {f \in AllFlags : IsSupported(f)} = {SSSE3, SSE4_1, AVX2}

\* C3 as claimed: EnforceCpuRequirements returns OK whenever AVX2 is in the
\* hardware-supported mask, whatever the enabled mask holds.
C3_OkWheneverHardwareHasAvx2 ==
  (last_call.op = "EnforceCpuRequirements" /\ AVX2 \in original_hardware_flags_)
     => last_call.ok

\* C3 as amended: EnforceCpuRequirements returns OK exactly when AVX2 is in the
\* enabled mask (IsSupported(AVX2)), an error otherwise, and the process runs on.
C3_OkIffAvx2Enabled ==
  last_call.op = "EnforceCpuRequirements" =>
     /\ last_call.ok <=> AVX2 \in hardware_flags_
     /\ status = "running"

\* C3 witness: the check reported an error on a machine whose hardware has AVX2.
C3_Witness ==
  /\ last_call.op = "EnforceCpuRequirements"
  /\ ~last_call.ok
  /\ AVX2 \in original_hardware_flags_

\* C4: after one Init() and any InitFakeNumaForTest calls, every node's list is
\* strictly ascending and holds exactly the cores mapped to the node, and the
\* lists together hold every core of [0, maxCores) exactly once.
C4_NodeToCoresIsInverse ==
  (status = "running" /\ initialized_ /\ init_calls = 1) =>
     /\ Len(numa_node_to_cores_) = max_num_numa_nodes_
     /\ Len(core_to_numa_node_) = max_num_cores_
     /\ \A n \in 0..(max_num_numa_nodes_ - 1) :
          LET cores == At(numa_node_to_cores_, n)
          IN  /\ \A i \in 1..(Len(cores) - 1) : cores[i] < cores[i + 1]
              /\ {cores[i] : i \in 1..Len(cores)}
                   = {c \in 0..(max_num_cores_ - 1) : At(core_to_numa_node_, c) = n}
     /\ \A c \in 0..(max_num_cores_ - 1) :
          Cardinality({<<n, i>> \in (1..Len(numa_node_to_cores_)) \X (1..max_num_cores_) :
                         /\ i <= Len(numa_node_to_cores_[n])
                         /\ numa_node_to_cores_[n][i] = c}) = 1

\* C4 witness: an injected topology with two nodes in use, one of them with
\* several cores.
C4_Witness ==
  /\ Returned("InitFakeNumaForTest")
  /\ init_calls = 1
  /\ max_num_numa_nodes_ = 2
  /\ Len(At(numa_node_to_cores_, 0)) >= 1
  /\ Len(At(numa_node_to_cores_, 1)) >= 2

\* C5: after one Init() and any InitFakeNumaForTest calls, every core's local
\* index is a valid index of its node's list and the list holds the core there.
C5_LocalIndexFindsCore ==
  (status = "running" /\ initialized_ /\ init_calls = 1) =>
     /\ Len(numa_node_core_idx_) = max_num_cores_
     /\ \A c \in 0..(max_num_cores_ - 1) :
          LET node  == At(core_to_numa_node_, c)
              index == At(numa_node_core_idx_, c)
          IN  /\ node \in 0..(Len(numa_node_to_cores_) - 1)
              /\ index \in 0..(Len(At(numa_node_to_cores_, node)) - 1)
              /\ At(At(numa_node_to_cores_, node), index) = c

\* C5 witness: a core with a local index above 0 on node 1 of an injected topology.
C5_Witness ==
  /\ Returned("InitFakeNumaForTest")
  /\ init_calls = 1
  /\ \E c \in 0..(max_num_cores_ - 1) :
       At(core_to_numa_node_, c) = 1 /\ At(numa_node_core_idx_, c) >= 1

\* C6: GetCurrentCore() returns a value in [0, maxCores): 0 for a negative
\* value or without sched_getcpu(), the value itself when it is in range, and
\* the value modulo maxCores when it is maxCores or more.
C6_CurrentCoreInRange ==
  last_call.op = "GetCurrentCore" =>
     /\ last_call.ret \in 0..(max_num_cores_ - 1)
     /\ (~HAVE_SCHED_GETCPU \/ last_call.cpu < 0) => last_call.ret = 0
     /\ (HAVE_SCHED_GETCPU /\ last_call.cpu \in 0..(max_num_cores_ - 1))
          => last_call.ret = last_call.cpu
     /\ (HAVE_SCHED_GETCPU /\ last_call.cpu >= max_num_cores_)
          => \E q \in 1..last_call.cpu :
               last_call.cpu = q * max_num_cores_ + last_call.ret

\* C6 witness: an out-of-range identifier folded to a core other than 0.
C6_Witness ==
  /\ last_call.op = "GetCurrentCore"
  /\ HAVE_SCHED_GETCPU
  /\ last_call.cpu >= max_num_cores_
  /\ last_call.ret > 0

\* What InitFakeNumaForTest(nodes, map) is claimed to leave: the topology
\* derived from the arguments alone.
InjectedTopology(nodes, map) ==
  << nodes,
     map,
     [n \in 1..nodes |-> CoresOfNode(map, n - 1, 0)],
     [i \in 1..Len(map) |->
        Cardinality({c \in 0..(i - 2) : At(map, c) = At(map, i - 1)})] >>

\* C7: InitFakeNumaForTest(k, m) with maxCores entries leaves the topology
\* derived from (k, m) alone; with any other number of entries it ends the
\* process and leaves the topology as it was.
C7_InjectionOrRejection ==
  [][last_call'.op = "InitFakeNumaForTest" =>
       IF Len(last_call'.map) = max_num_cores_
       THEN /\ status' = "running"
            /\ topology' = InjectedTopology(last_call'.nodes, last_call'.map)
       ELSE status' = "aborted" /\ UNCHANGED topology]_vars

\* C8 as claimed: the first Init() on a table without a recognised record
\* leaves one active core, the model "unknown", 1000000 cycles per ms and an
\* empty enabled mask.
C8_DefaultsWithoutRecords ==
  (Returned("Init") /\ init_calls = 1 /\ NoRecognisedRecord(cpuinfo)) =>
     /\ num_cores_ = 1
     /\ model_name_ = str_unknown
     /\ cycles_per_ms_ = 1000000
     /\ hardware_flags_ = {}

\* C8 as amended: the same, but the active core count is --num_cores when that
\* is positive and 1 only without it.
C8_DefaultsUnlessOverridden ==
  (Returned("Init") /\ init_calls = 1 /\ NoRecognisedRecord(cpuinfo)) =>
     /\ num_cores_ = (IF FLAGS_num_cores > 0 THEN FLAGS_num_cores ELSE 1)
     /\ model_name_ = str_unknown
     /\ cycles_per_ms_ = 1000000
     /\ hardware_flags_ = {}

\* C8 witness: Init() has returned on the table of unrecognised records, with
\* and without --num_cores.
C8_Witness ==
  /\ Returned("Init")
  /\ init_calls = 1
  /\ cpuinfo = TableGarbage
  /\ FLAGS_num_cores > 0
  /\ num_cores_ = FLAGS_num_cores

\* C9: IsSupported(f) is false right after EnableFeature(f, false), and true
\* right after EnableFeature(f, true) when the hardware-supported mask has f.
C9_DisableThenEnable ==
  last_call.op = "EnableFeature" =>
     /\ ~last_call.enable => ~IsSupported(last_call.flag)
     /\ (last_call.enable /\ last_call.flag \in original_hardware_flags_)
          => (IsSupported(last_call.flag) /\ status = "running")

\* C9 witness: a supported flag was enabled again after an EnableFeature call,
\* while another supported flag is still disabled.
C9_Witness ==
  /\ Returned("EnableFeature")
  /\ prev_op = "EnableFeature"
  /\ last_call.enable
  /\ last_call.flag \in original_hardware_flags_
  /\ IsSupported(last_call.flag)
  /\ original_hardware_flags_ \ hardware_flags_ # {}

\* C10 as claimed: a second Init() completes and leaves every published fact
\* as the first call left it.
C10_InitIdempotent ==
  (last_call.op = "Init" /\ init_calls = 2) =>
     (status = "running" /\ Facts = first_init)

\* C10 as amended: a second Init() right after the first ends the process in a
\* build with DCHECKs; in a release build it completes, leaves the masks, the
\* core counts, maxNodes and CoreToNodeMap as the first call left them, appends
\* every core a second time to its node's list and makes the core's local
\* index the position of that second entry.
C10_SecondInitAppends ==
  (last_call.op = "Init" /\ init_calls = 2 /\ prev_op = "Init") =>
     IF ~NDEBUG THEN status = "aborted"
     ELSE /\ status = "running"
          /\ [Facts EXCEPT !.nodeToCores = <<>>, !.localIndex = <<>>]
               = [first_init EXCEPT !.nodeToCores = <<>>, !.localIndex = <<>>]
          /\ numa_node_to_cores_ =
               [n \in 1..max_num_numa_nodes_ |->
                  first_init.nodeToCores[n] \o first_init.nodeToCores[n]]
          /\ numa_node_core_idx_ =
               [i \in 1..max_num_cores_ |->
                  first_init.localIndex[i]
                    + Len(first_init.nodeToCores[core_to_numa_node_[i] + 1])]

\* C10 witness: a second Init() has returned in a release build on a machine
\* with several cores on two nodes.
C10_Witness ==
  /\ Returned("Init")
  /\ init_calls = 2
  /\ prev_op = "Init"
  /\ max_num_cores_ >= 2
  /\ max_num_numa_nodes_ >= 2
  /\ \E c \in 0..(max_num_cores_ - 1) : At(core_to_numa_node_, c) = 1

=============================================================================
